---- MODULE Spec2Model ----
(***************************************************************************)
(* XdFontList (src/xd_font_list.js): the manifest walk, the recursive font *)
(* scan of one artboard document and the merge of the per-artboard font    *)
(* maps into one catalog.                                                  *)
(*                                                                         *)
(* Decoded JSON is a tagged value:                                         *)
(*   [t |-> "null"], [t |-> "str", v |-> s], [t |-> "arr", els |-> seq],   *)
(*   [t |-> "obj", fs |-> seq of [k |-> key, v |-> value]]                 *)
(* and JavaScript's undefined is [t |-> "undefined"].  The fields of an    *)
(* object are kept in the decoder's order.                                 *)
(***************************************************************************)
EXTENDS Naturals, Sequences, FiniteSets, TLC

VARIABLES manifestEntry, archive, pc, thrownAt, indices, i, fonts, reads, merged,
          contents, artFonts, scanPc

vars == <<manifestEntry, archive, pc, thrownAt, indices, i, fonts, reads, merged,
          contents, artFonts, scanPc>>

mainVars == <<manifestEntry, archive, pc, thrownAt, indices, i, fonts, reads, merged>>

scanVars == <<contents, artFonts, scanPc>>

----------------------------------------------------------------------------
(* Bounds *)

\* largest number of children under the artwork node of a manifest
MaxBoards == 2

\* largest number of nodes of an enumerated artboard document
MaxNodes == 3

----------------------------------------------------------------------------
(* JSON values *)

Undef == [t |-> "undefined"]

JNull == [t |-> "null"]

JStr(s) == [t |-> "str", v |-> s]

JArr(els) == [t |-> "arr", els |-> els]

JObj(fs) == [t |-> "obj", fs |-> fs]

Field(k, v) == [k |-> k, v |-> v]

\* obj.k of a decoded mapping: the value of its field k, undefined without one
Get(obj, k) ==
  IF \E n \in 1..Len(obj.fs) : obj.fs[n].k = k
  THEN obj.fs[CHOOSE n \in 1..Len(obj.fs) : obj.fs[n].k = k].v
  ELSE Undef

\* x[k] throws a TypeError exactly when x is null or undefined
PropThrows(x) == x.t \in {"null", "undefined"}

\* x[k] for the names the program reads (id, name, path, children, family,
\* style, postscriptName, fontFamily, fontStyle): none is a property of a
\* string or of an array, so only a mapping can answer
Prop(x, k) == IF x.t = "obj" THEN Get(x, k) ELSE Undef

\* String(x), as used for a property key and in string concatenation
RECURSIVE ToStr(_)
RECURSIVE JoinStr(_)
JoinStr(els) ==
  IF els = <<>> THEN ""
  ELSE LET h == IF els[1].t \in {"null", "undefined"} THEN "" ELSE ToStr(els[1])
       IN  IF Len(els) = 1 THEN h ELSE h \o "," \o JoinStr(Tail(els))

ToStr(x) ==
  CASE x.t = "undefined" -> "undefined"
    [] x.t = "null"      -> "null"
    [] x.t = "str"       -> x.v
    [] x.t = "arr"       -> JoinStr(x.els)
    [] x.t = "obj"       -> "[object Object]"

\* JavaScript truthiness of a decoded value
Truthy(x) == ~ (x.t \in {"null", "undefined"} \/ x = JStr(""))

----------------------------------------------------------------------------
(* FontData *)

FontData(name, style, postScriptName) ==
  [name |-> name,
   style |-> IF style = JNull \/ style = Undef THEN JStr("") ELSE style,
   postScriptName |-> postScriptName,
   usages |-> <<>>]

\* get id()
FontId(font) == font.postScriptName

Includes(seq, x) == \E n \in 1..Len(seq) : seq[n] = x

addUsage(font, name) ==
  IF Includes(font.usages, name) THEN font
  ELSE [font EXCEPT !.usages = Append(@, name)]

----------------------------------------------------------------------------
(* ArtBoard: the font scan of one document *)

\* a JavaScript object used as a map: this.fonts[key] = font
EmptyMap == <<>>

Put(map, key, val) ==
  [x \in DOMAIN map \cup {key} |-> IF x = key THEN val ELSE map[x]]

\* the scan's state: the fonts found so far, and whether a TypeError escaped
ScanStart == [fonts |-> EmptyMap, threw |-> FALSE]

Record(st, font) == [st EXCEPT !.fonts = Put(@, ToStr(FontId(font)), font)]

RECURSIVE findFonts(_, _)
RECURSIVE findFontsItems(_, _)
RECURSIVE findFontsKeys(_, _)

\* obj.forEach(item => this.findFonts(item))
findFontsItems(st, els) ==
  IF st.threw \/ els = <<>> THEN st
  ELSE findFontsItems(findFonts(st, els[1]), Tail(els))

\* Object.keys(obj).forEach(k => { if (k === 'font') {...}; this.findFonts(obj[k]) })
findFontsKeys(st, fs) ==
  IF st.threw \/ fs = <<>> THEN st
  ELSE LET f   == fs[1]
           st1 == IF f.k = "font"
                  THEN IF PropThrows(f.v)
                       THEN [st EXCEPT !.threw = TRUE]
                       ELSE Record(st, FontData(Prop(f.v, "family"), Prop(f.v, "style"),
                                                Prop(f.v, "postscriptName")))
                  ELSE st
       IN  IF st1.threw THEN st1
           ELSE findFontsKeys(findFonts(st1, f.v), Tail(fs))

findFonts(st, obj) ==
  IF st.threw THEN st
  ELSE IF obj.t = "arr" THEN findFontsItems(st, obj.els)
  ELSE IF obj.t = "obj"
       THEN LET st1 == IF Get(obj, "fontFamily") # Undef
                       THEN Record(st, FontData(Get(obj, "fontFamily"), Get(obj, "fontStyle"),
                                                Get(obj, "postscriptName")))
                       ELSE st
            IN  findFontsKeys(st1, obj.fs)
  ELSE st

\* this.fonts = {}; if (this.contents) this.findFonts(this.contents)
updateFonts(doc) == IF Truthy(doc) THEN findFonts(ScanStart, doc) ELSE ScanStart

----------------------------------------------------------------------------
(* The documents the scan is run on *)

Strs == {"F", "G"}

Keys == {"fontFamily", "fontStyle", "postscriptName", "font", "family", "style", "a"}

Scalars == {JNull} \cup {JStr(s) : s \in Strs}

RECURSIVE ValsOfSize(_)
RECURSIVE ItemsOfSize(_)
RECURSIVE FieldsOfSize(_, _)

\* the sequences of values with m nodes in all
ItemsOfSize(m) ==
  IF m = 0 THEN {<<>>}
  ELSE UNION {{<<v>> \o r : v \in ValsOfSize(j), r \in ItemsOfSize(m - j)} : j \in 1..m}

\* the field lists with m value nodes in all and distinct keys outside used
FieldsOfSize(m, used) ==
  IF m = 0 THEN {<<>>}
  ELSE UNION {UNION {{<<Field(k, v)>> \o r : v \in ValsOfSize(j),
                                             r \in FieldsOfSize(m - j, used \cup {k})}
                     : k \in Keys \ used} : j \in 1..m}

\* the values with exactly n nodes
ValsOfSize(n) ==
  IF n = 1 THEN Scalars \cup {JArr(<<>>), JObj(<<>>)}
  ELSE {JArr(s) : s \in ItemsOfSize(n - 1)} \cup {JObj(f) : f \in FieldsOfSize(n - 1, {})}

\* the example document of the traversal-completeness property
ExampleDoc ==
  JObj(<<Field("a", JObj(<<Field("font", JObj(<<Field("family", JStr("Foo")),
                                               Field("style", JStr("Bold")),
                                               Field("postscriptName", JStr("Foo-Bold"))>>))>>)),
         Field("b", JArr(<<JObj(<<Field("fontFamily", JStr("Bar")),
                                  Field("fontStyle", JNull),
                                  Field("postscriptName", JStr("Bar-Reg"))>>)>>))>>)

\* a scalar and a null under a field named font, each followed by a further field
FontScalarDoc ==
  JObj(<<Field("font", JStr("F")),
         Field("a", JObj(<<Field("fontFamily", JStr("G")), Field("postscriptName", JStr("G"))>>))>>)

FontNullDoc ==
  JObj(<<Field("font", JNull),
         Field("a", JObj(<<Field("fontFamily", JStr("G")), Field("postscriptName", JStr("G"))>>))>>)

\* every document of at most n nodes, and the three above
Docs(n) == UNION {ValsOfSize(m) : m \in 1..n} \cup {ExampleDoc, FontScalarDoc, FontNullDoc}

----------------------------------------------------------------------------
(* SpecScan: one ArtBoard object, constructed from a document *)

InitScan ==
  /\ contents \in Docs(MaxNodes)
  /\ artFonts = EmptyMap
  /\ scanPc = "constructed"
  /\ manifestEntry = JNull
  /\ archive = EmptyMap
  /\ pc = "idle"
  /\ thrownAt = ""
  /\ indices = <<>>
  /\ i = 0
  /\ fonts = EmptyMap
  /\ reads = <<>>
  /\ merged = <<>>

UpdateFonts ==
  /\ LET st == updateFonts(contents)
     IN  /\ artFonts' = st.fonts
         /\ scanPc' = IF st.threw THEN "threw" ELSE "scanned"
  /\ UNCHANGED <<contents, mainVars>>

NextScan == UpdateFonts

SpecScan == InitScan /\ [][NextScan]_vars

----------------------------------------------------------------------------
(* ArtBoardIndex *)

ArtBoardIndex(object) ==
  [contents |-> object,
   id |-> Prop(object, "id"),
   name |-> Prop(object, "name"),
   path |-> Prop(object, "path")]

\* get isLoaded()
IndexIsLoaded(board) == board.contents # Undef /\ board.contents # JNull

StartsWith(s, prefix) == Len(s) >= Len(prefix) /\ SubSeq(s, 1, Len(prefix)) = prefix

\* get isArtBoard(): this.path.startsWith('artboard'); a path that is no string
\* has no such method (the getter would throw), so it is no artboard path
isArtBoard(board) == board.path.t = "str" /\ StartsWith(board.path.v, "artboard")

getDataPath(board) == "artwork/" \o ToStr(board.path) \o "/graphics/graphicContent.agc"

\* index.name + ` [${index.id}]`
UsageLabel(board) == ToStr(board.name) \o " [" \o ToStr(board.id) \o "]"

----------------------------------------------------------------------------
(* Manifest *)

\* a call's outcome: the value returned, or a TypeError thrown
Returned(v) == [threw |-> FALSE, value |-> v]

Threw == [threw |-> TRUE, value |-> Undef]

\* get isLoaded()
ManifestIsLoaded(manifest) == manifest # Undef /\ manifest # JNull

\* for (let child of this.manifest.children) if (child.name === 'artwork') return child
RECURSIVE FirstArtWork(_)
FirstArtWork(children) ==
  IF children = <<>> THEN Returned(Undef)
  ELSE IF PropThrows(children[1]) THEN Threw
  ELSE IF Prop(children[1], "name") = JStr("artwork") THEN Returned(children[1])
  ELSE FirstArtWork(Tail(children))

\* getArtWork without its test of manifest.children against undefined
getArtWorkUnguarded(manifest) ==
  IF manifest = Undef THEN Returned(Undef)
  ELSE LET children == Prop(manifest, "children")
       IN  IF children.t = "arr" THEN FirstArtWork(children.els)
           ELSE IF children.t = "str" THEN Returned(Undef)
           ELSE Threw

\* for...of throws on a value that is not iterable; the characters of a string
\* are iterated, and none of them has a name
getArtWork(manifest) ==
  IF manifest = Undef THEN Returned(Undef)
  ELSE LET children == Prop(manifest, "children")
       IN  IF children = Undef THEN Returned(Undef)
           ELSE IF children.t = "arr" THEN FirstArtWork(children.els)
           ELSE IF children.t = "str" THEN Returned(Undef)
           ELSE Threw

\* the loop of getArtBoards without its test for the pasteboard
RECURSIVE CollectBoardsWithPasteboard(_, _)
CollectBoardsWithPasteboard(artBoards, children) ==
  IF children = <<>> THEN Returned(JArr(artBoards))
  ELSE IF PropThrows(children[1]) THEN Threw
  ELSE LET board == ArtBoardIndex(children[1])
       IN  IF ~ IndexIsLoaded(board) THEN CollectBoardsWithPasteboard(artBoards, Tail(children))
           ELSE CollectBoardsWithPasteboard(Append(artBoards, board), Tail(children))

\* the loop of getArtBoards over artWork.children, artBoards being the list so
\* far; the list is returned as an array value
RECURSIVE CollectBoards(_, _)
CollectBoards(artBoards, children) ==
  IF children = <<>> THEN Returned(JArr(artBoards))
  ELSE IF PropThrows(children[1]) THEN Threw
  ELSE IF Prop(children[1], "name") = JStr("pasteboard")
       THEN CollectBoards(artBoards, Tail(children))
  ELSE LET board == ArtBoardIndex(children[1])
       IN  IF ~ IndexIsLoaded(board) THEN CollectBoards(artBoards, Tail(children))
           ELSE CollectBoards(Append(artBoards, board), Tail(children))

getArtBoards(manifest) ==
  LET artWork == getArtWork(manifest)
  IN  IF artWork.threw THEN Threw
      ELSE IF artWork.value = Undef \/ Prop(artWork.value, "children") = Undef
           THEN Returned(Undef)
      ELSE LET children == Prop(artWork.value, "children")
           IN  IF children.t = "arr" THEN CollectBoards(<<>>, children.els)
               ELSE IF children.t = "str" THEN Returned(JArr(<<>>))
               ELSE Threw

----------------------------------------------------------------------------
(* XdFonts.makeList *)

\* an archive entry that is not there, and one whose bytes are not JSON
Absent == [t |-> "absent"]

Malformed == [t |-> "malformed"]

\* a merge that stores the later artboard's declaration over the catalog's
mergeFontsOverwriting(catalog, pageFonts, label) ==
  [key \in DOMAIN catalog \cup DOMAIN pageFonts |->
     IF key \in DOMAIN pageFonts
     THEN IF key \in DOMAIN catalog
          THEN [pageFonts[key] EXCEPT !.usages = addUsage(catalog[key], label).usages]
          ELSE pageFonts[key]
     ELSE catalog[key]]

\* Object.keys(artBoard.fonts).forEach(key => ...): the merge of one artboard's
\* fonts into the catalog under the artboard's label
mergeFonts(catalog, pageFonts, label) ==
  [key \in DOMAIN catalog \cup DOMAIN pageFonts |->
     IF key \in DOMAIN pageFonts
     THEN IF key \in DOMAIN catalog THEN addUsage(catalog[key], label) ELSE pageFonts[key]
     ELSE catalog[key]]

\* the children of the artwork node
Board(id, name, path) ==
  JObj(<<Field("id", JStr(id)), Field("name", JStr(name)), Field("path", JStr(path))>>)

BoardChildren ==
  {JNull,
   Board("1", "P", "artboard-a"),
   Board("2", "P", "artboard-b"),
   Board("3", "pasteboard", "pasteboard"),
   Board("4", "R", "resources"),
   JObj(<<Field("name", JStr("P")), Field("path", JStr("artboard-a"))>>),
   JObj(<<Field("id", JStr("1")), Field("path", JStr("artboard-a"))>>),
   JObj(<<Field("id", JStr("1")), Field("name", JStr("P"))>>)}

RECURSIVE SeqsUpTo(_, _)
SeqsUpTo(S, n) ==
  IF n = 0 THEN {<<>>}
  ELSE {<<>>} \cup {<<x>> \o r : x \in S, r \in SeqsUpTo(S, n - 1)}

ArtWorkNodes ==
  {JObj(<<Field("name", JStr("artwork"))>>)}
  \cup {JObj(<<Field("name", JStr("artwork")), Field("children", JArr(c))>>)
        : c \in SeqsUpTo(BoardChildren, MaxBoards)}

MetaNode == JObj(<<Field("name", JStr("meta"))>>)

\* the top-level children: an artwork node or none, before or after another node
TopChildren ==
  {<<>>, <<MetaNode>>}
  \cup UNION {{<<a>>, <<MetaNode, a>>, <<a, MetaNode>>} : a \in ArtWorkNodes}

ManifestEntries ==
  {Absent, Malformed, JNull, JObj(<<>>)}
  \cup {JObj(<<Field("children", JArr(c))>>) : c \in TopChildren}

InlineFont(family, style, psn) ==
  JObj(<<Field("fontFamily", JStr(family)), Field("fontStyle", style),
         Field("postscriptName", JStr(psn))>>)

NestedFont(family, style, psn) ==
  JObj(<<Field("font", JObj(<<Field("family", JStr(family)), Field("style", style),
                              Field("postscriptName", JStr(psn))>>))>>)

\* the graphicContent.agc documents of the archive
PageDocs ==
  {JNull,
   JArr(<<>>),
   InlineFont("Foo", JStr("Bold"), "F"),
   JObj(<<Field("a", JArr(<<NestedFont("Bar", JNull, "F"), NestedFont("Bar", JNull, "F")>>))>>),
   JArr(<<InlineFont("Foo", JStr("Bold"), "F"), NestedFont("Baz", JStr("Thin"), "G")>>),
   FontScalarDoc,
   FontNullDoc}

PageEntries == {Absent, Malformed} \cup PageDocs

Init ==
  /\ manifestEntry \in ManifestEntries
  /\ archive = EmptyMap
  /\ pc = "start"
  /\ thrownAt = ""
  /\ indices = <<>>
  /\ i = 0
  /\ fonts = EmptyMap
  /\ reads = <<>>
  /\ merged = <<>>
  /\ contents = JNull
  /\ artFonts = EmptyMap
  /\ scanPc = "idle"

\* lines 195-203: the manifest is read, parsed and its artboards enumerated
LoadManifest ==
  /\ pc = "start"
  /\ IF manifestEntry \in {Absent, Malformed}
     THEN /\ pc' = "threw"
          /\ thrownAt' = "manifest"
          /\ UNCHANGED <<indices, i>>
     ELSE IF ~ ManifestIsLoaded(manifestEntry)
     THEN /\ pc' = "returned"
          /\ UNCHANGED <<thrownAt, indices, i>>
     ELSE LET r == getArtBoards(manifestEntry)
          IN  IF r.threw
              THEN /\ pc' = "threw"
                   /\ thrownAt' = "getArtBoards"
                   /\ UNCHANGED <<indices, i>>
              ELSE IF r.value = Undef
              THEN /\ pc' = "returned"
                   /\ UNCHANGED <<thrownAt, indices, i>>
              ELSE /\ pc' = "loop"
                   /\ indices' = r.value.els
                   /\ i' = 1
                   /\ UNCHANGED thrownAt
  /\ UNCHANGED <<manifestEntry, archive, fonts, reads, merged, scanVars>>

\* lines 205-224: one pass of the loop over the artboards.  The archive's entry
\* is fixed the first time its name is looked up.
ProcessPage ==
  /\ pc = "loop"
  /\ i <= Len(indices)
  /\ LET index    == indices[i]
         dataPath == getDataPath(index)
     IN  \E entry \in PageEntries :
           /\ dataPath \in DOMAIN archive => entry = archive[dataPath]
           /\ archive' = Put(archive, dataPath, entry)
           /\ reads' = Append(reads, index)
           /\ IF entry = Absent \/ entry = Malformed
              THEN /\ pc' = "threw"
                   /\ thrownAt' = IF entry = Absent THEN "getData" ELSE "parse"
                   /\ UNCHANGED <<i, fonts, merged>>
              ELSE IF entry = JNull
              THEN /\ i' = i + 1
                   /\ UNCHANGED <<pc, thrownAt, fonts, merged>>
              ELSE LET st == updateFonts(entry)
                   IN  IF st.threw
                       THEN /\ pc' = "threw"
                            /\ thrownAt' = "findFonts"
                            /\ UNCHANGED <<i, fonts, merged>>
                       ELSE /\ fonts' = mergeFonts(fonts, st.fonts, UsageLabel(index))
                            /\ merged' = Append(merged, i)
                            /\ i' = i + 1
                            /\ UNCHANGED <<pc, thrownAt>>
  /\ UNCHANGED <<manifestEntry, indices, scanVars>>

\* line 225: return fonts
Return ==
  /\ pc = "loop"
  /\ i > Len(indices)
  /\ pc' = "returned"
  /\ UNCHANGED <<manifestEntry, archive, thrownAt, indices, i, fonts, reads, merged, scanVars>>

Next == LoadManifest \/ ProcessPage \/ Return

Spec == Init /\ [][Next]_vars

----------------------------------------------------------------------------
(* What the properties speak of *)

Count(seq, x) == Cardinality({n \in 1..Len(seq) : seq[n] = x})

\* every mapping of a document, at any depth
RECURSIVE Mappings(_)
Mappings(v) ==
  IF v.t = "arr" THEN UNION {Mappings(v.els[n]) : n \in 1..Len(v.els)}
  ELSE IF v.t = "obj" THEN {v} \cup UNION {Mappings(v.fs[n].v) : n \in 1..Len(v.fs)}
  ELSE {}

\* the values of the fields named font, at any depth
FontValues(doc) ==
  UNION {{m.fs[n].v : n \in {x \in 1..Len(m.fs) : m.fs[x].k = "font"}} : m \in Mappings(doc)}

\* the identities a document declares: the postscriptName of every mapping with
\* a fontFamily field and of every mapping that is the value of a font field
DeclaredKeys(doc) ==
  {ToStr(Get(m, "postscriptName"))
     : m \in {x \in Mappings(doc) : Get(x, "fontFamily") # Undef}
             \cup {x \in FontValues(doc) : x.t = "obj"}}

\* a field named font whose value is a scalar or null
HasBareFont(doc) == \E v \in FontValues(doc) : v.t \in {"str", "null"}

\* the document without those fields
RECURSIVE Strip(_)
RECURSIVE StripItems(_)
RECURSIVE StripFields(_)
StripItems(els) ==
  IF els = <<>> THEN <<>> ELSE <<Strip(els[1])>> \o StripItems(Tail(els))

StripFields(fs) ==
  IF fs = <<>> THEN <<>>
  ELSE IF fs[1].k = "font" /\ fs[1].v.t \in {"str", "null"} THEN StripFields(Tail(fs))
  ELSE <<Field(fs[1].k, Strip(fs[1].v))>> \o StripFields(Tail(fs))

Strip(v) ==
  IF v.t = "arr" THEN JArr(StripItems(v.els))
  ELSE IF v.t = "obj" THEN JObj(StripFields(v.fs))
  ELSE v

\* the children of the manifest's first top-level child named artwork, when the
\* manifest has such a child and it has a list of children
TopList ==
  IF manifestEntry.t = "obj" /\ Prop(manifestEntry, "children").t = "arr"
  THEN Prop(manifestEntry, "children").els ELSE <<>>

ArtWorkAt == {n \in 1..Len(TopList) : Prop(TopList[n], "name") = JStr("artwork")}

HasBoardList ==
  /\ ArtWorkAt # {}
  /\ Prop(TopList[CHOOSE n \in ArtWorkAt : \A m \in ArtWorkAt : n <= m], "children").t = "arr"

BoardList ==
  IF HasBoardList
  THEN Prop(TopList[CHOOSE n \in ArtWorkAt : \A m \in ArtWorkAt : n <= m], "children").els
  ELSE <<>>

IsPasteboard(child) == Prop(child, "name") = JStr("pasteboard")

\* the archive's entry for the n-th enumerated artboard, once it has been read
EntryOf(n) == archive[getDataPath(indices[n])]

WasRead(n) == getDataPath(indices[n]) \in DOMAIN archive

IsDoc(entry) == entry # Absent /\ entry # Malformed

\* a descriptor with an id and a name, whose path is that of an artboard
IsPage(board) == board.id.t = "str" /\ board.name.t = "str" /\ isArtBoard(board)

\* the font map the scan makes of the n-th enumerated artboard
PageFonts(n) == updateFonts(EntryOf(n)).fonts

----------------------------------------------------------------------------
(* C1: when makeList has returned, for any two distinct enumerated artboards  *)
(* (descriptors with id, name and an artboard path) with distinct labels     *)
(* whose documents both declare the identity F, the usages of F's catalog    *)
(* entry hold each of the two labels exactly once.                           *)
C1_EachLabelOnce ==
  pc = "returned" =>
    \A p1, p2 \in 1..Len(indices) :
      (/\ p1 # p2
       /\ IsPage(indices[p1]) /\ IsPage(indices[p2])
       /\ UsageLabel(indices[p1]) # UsageLabel(indices[p2])
       /\ IsDoc(EntryOf(p1)) /\ IsDoc(EntryOf(p2)))
      => \A key \in DeclaredKeys(EntryOf(p1)) \cap DeclaredKeys(EntryOf(p2)) :
           /\ key \in DOMAIN fonts
           /\ Count(fonts[key].usages, UsageLabel(indices[p1])) = 1
           /\ Count(fonts[key].usages, UsageLabel(indices[p2])) = 1

(* C2: merging the scan of the same artboard a second time, right after the  *)
(* first, under the same label leaves the length of every font's usages as   *)
(* the first merge left it.                                                  *)
C2_SecondMergeAddsNoUsage ==
  [][(/\ pc = "loop"
      /\ i > 1
      /\ i <= Len(indices)
      /\ indices[i] = indices[i - 1]
      /\ IsPage(indices[i])
      /\ merged # <<>>
      /\ merged[Len(merged)] = i - 1
      /\ merged' = Append(merged, i))
     => \A key \in DOMAIN fonts' :
          /\ key \in DOMAIN fonts
          /\ Len(fonts'[key].usages) = Len(fonts[key].usages)]_vars

FirstWith(key) ==
  CHOOSE n \in 1..Len(merged) :
    /\ key \in DOMAIN PageFonts(merged[n])
    /\ \A m \in 1..(n - 1) : key \notin DOMAIN PageFonts(merged[m])

(* C3: the catalog has one entry for each identity the merged artboards      *)
(* declare and no other; its name and style are those the first merged       *)
(* artboard with that identity gave it, and its usages are labels of merged  *)
(* artboards that have the identity.                                         *)
C3_FirstDeclarationKept ==
  /\ DOMAIN fonts = UNION {DOMAIN PageFonts(merged[n]) : n \in 1..Len(merged)}
  /\ \A key \in DOMAIN fonts :
       LET first == PageFonts(merged[FirstWith(key)])[key]
       IN  /\ fonts[key].name = first.name
           /\ fonts[key].style = first.style
           /\ fonts[key].postScriptName = first.postScriptName
           /\ \A u \in 1..Len(fonts[key].usages) :
                \E n \in 1..Len(merged) :
                  /\ key \in DOMAIN PageFonts(merged[n])
                  /\ fonts[key].usages[u] = UsageLabel(indices[merged[n]])

\* two merged artboards gave the same identity different names
C3_Witness ==
  /\ pc = "returned"
  /\ \E n1, n2 \in 1..Len(merged) : \E key \in DOMAIN fonts :
       /\ n1 < n2
       /\ key \in DOMAIN PageFonts(merged[n1]) \cap DOMAIN PageFonts(merged[n2])
       /\ PageFonts(merged[n1])[key].name # PageFonts(merged[n2])[key].name
       /\ PageFonts(merged[n1])[key].style # PageFonts(merged[n2])[key].style

(* C4: an artboard whose archive entry is absent or is not JSON does not     *)
(* make makeList throw; makeList returns, having merged every artboard whose *)
(* entry is a document.                                                      *)
C4_PageFailureIsolated ==
  (\E n \in 1..Len(indices) : IsPage(indices[n]) /\ WasRead(n) /\ ~ IsDoc(EntryOf(n)))
  => /\ pc # "threw"
     /\ pc = "returned" =>
          \A n \in 1..Len(indices) :
            (IsDoc(EntryOf(n)) /\ EntryOf(n) # JNull) => Includes(merged, n)

(* C5: after updateFonts the keys of the artboard's font map are exactly the *)
(* identities the document declares, and the scan does not throw; the        *)
(* example document gives the keys Foo-Bold and Bar-Reg.                     *)
C5_KeysAreDeclared ==
  scanPc # "constructed" =>
    /\ scanPc = "scanned"
    /\ DOMAIN artFonts = DeclaredKeys(contents)
    /\ contents = ExampleDoc => DOMAIN artFonts = {"Foo-Bold", "Bar-Reg"}

(* C6: no enumerated descriptor, and no artboard whose document is read,     *)
(* is the child named pasteboard.                                            *)
C6_NoPasteboard ==
  /\ \A n \in 1..Len(indices) : ~ IsPasteboard(indices[n].contents)
  /\ \A n \in 1..Len(reads) : ~ IsPasteboard(reads[n].contents)

\* a pasteboard that is not the first child, in a run that read an artboard
C6_Witness ==
  /\ pc = "returned"
  /\ reads # <<>>
  /\ \E n \in 2..Len(BoardList) : IsPasteboard(BoardList[n])

EmptyTree ==
  /\ manifestEntry.t = "obj"
  /\ \/ Prop(manifestEntry, "children") = Undef
     \/ /\ Prop(manifestEntry, "children").t = "arr"
        /\ \/ ArtWorkAt = {}
           \/ ~ HasBoardList
           \/ BoardList = <<>>

C8_OnlyArtboardPaths ==
  /\ \A n \in 1..Len(indices) : isArtBoard(indices[n])
  /\ \A n \in 1..Len(reads) : isArtBoard(reads[n])

(* C9: a document with a field named font whose value is a scalar or null is *)
(* scanned without an error, and the scan finds what it finds in the         *)
(* document without those fields.                                            *)
C9_BareFontIgnored ==
  (scanPc # "constructed" /\ HasBareFont(contents)) =>
    /\ scanPc = "scanned"
    /\ artFonts = updateFonts(Strip(contents)).fonts

LoadableBoard(child) ==
  /\ child.t = "obj"
  /\ \A k \in {"id", "name", "path"} : Get(child, k) # Undef /\ Get(child, k) # JNull
  /\ ~ IsPasteboard(child)

(* C10: getArtBoards does not throw, and it returns a descriptor for exactly *)
(* the children that are not the pasteboard and are mappings whose id, name  *)
(* and path are present and not null, in the children's order.               *)
C10_UnloadableDropped ==
  (HasBoardList /\ pc # "start") =>
    /\ thrownAt # "getArtBoards"
    /\ [n \in 1..Len(indices) |-> indices[n].contents] = SelectSeq(BoardList, LoadableBoard)

====
